---- MODULE Spec2Model ----
(***************************************************************************)
(* Model of pdf_to_pptx_tool: convert_pdf_to_pptx (converter.py) and the   *)
(* convert command that wraps it (cli.py).                                 *)
(*                                                                         *)
(* A conversion is a process p.  Its state is its position in the code     *)
(* (pc), the rasterized images, the in-memory deck (slides), the loop      *)
(* index i and the exception in flight (exc).  The filesystem fs is shared *)
(* by all conversions that run in the same working directory.              *)
(*                                                                         *)
(* Spec      one conversion, started through the CLI or called directly.   *)
(* SpecConc  two conversions in the same working directory, interleaved.   *)
(***************************************************************************)
EXTENDS Integers, Sequences, FiniteSets, TLC

\* Largest page count of a source document.
MaxPages == 2

Procs == {1, 2}

----------------------------------------------------------------------------
\* Paths.  Src(p) and Dst(p) are the input_pdf and output_pptx arguments of
\* conversion p; the temporary image of page k is f"temp_page_{k}.png",
\* relative to the working directory, whatever the conversion.
Src(p) == <<"input_pdf", p>>
Dst(p) == <<"output_pptx", p>>

temp_image_path(k) == <<"temp_page", k>>

TempPaths == {temp_image_path(k) : k \in 1..MaxPages}
Paths == {Src(p) : p \in Procs} \cup {Dst(p) : p \in Procs} \cup TempPaths

\* File contents.
Absent == [kind |-> "absent"]
Dir == [kind |-> "dir"]
Corrupt == [kind |-> "corrupt"]
UserFile == [kind |-> "user"]
Partial == [kind |-> "partial"]
Pdf(d, n) == [kind |-> "pdf", doc |-> d, pages |-> n]
Png(img) == [kind |-> "png", img |-> img]
Pptx(deck) == [kind |-> "pptx", deck |-> deck]

\* Exceptions: the Python type, the chained cause and the step that raised.
NoExc == [type |-> "None", cause |-> "None", stage |-> "None"]
Exc(t, c, s) == [type |-> t, cause |-> c, stage |-> s]

NoReport == [exit |-> -1, stream |-> "none", category |-> "none"]

VARIABLES
  fs,           \* path -> content: the filesystem
  fs0,          \* the filesystem before any conversion started
  entry,        \* p -> "cli" | "api" | "off"
  pc,           \* p -> position in the code
  images,       \* p -> result of convert_from_path
  slides,       \* p -> prs.slides: sequence of slides, a slide is a sequence of pictures
  i,            \* p -> loop index of enumerate(images, 1)
  exc,          \* p -> exception in flight
  report,       \* p -> what the process reported: exit code, stream, category
  rasterCalls,  \* p -> number of calls of convert_from_path
  saveCalls,    \* p -> number of calls of prs.save
  created       \* p -> indices k whose temp_page_k.png this run opened for writing

vars == <<fs, fs0, entry, pc, images, slides, i, exc, report, rasterCalls, saveCalls, created>>

----------------------------------------------------------------------------
\* Pure parts of the code.

\* click.Path(exists=True, dir_okay=False): TRUE when the argument is accepted.
click_path_ok(content) == content.kind \notin {"absent", "dir"}

\* Lines 41-45: input_path.exists(), input_path.is_file().
\* Variant without the is_file() test of line 44.
validate_nofilecheck(content) ==
  IF content.kind = "absent" THEN "FileNotFoundError" ELSE "ok"

validate(content) ==
  IF content.kind = "absent" THEN "FileNotFoundError"
  ELSE IF content.kind = "dir" THEN "ValueError"
  ELSE "ok"

\* pdf2image.convert_from_path on a readable document: one image per page, in
\* document order.  An image is <<document, page number>>.
convert_from_path(content) == [k \in 1..content.pages |-> <<content.doc, k>>]

\* The failures convert_from_path can raise on a given source.
RasterErrors(content) ==
  IF content.kind = "pdf" THEN {"PDFInfoNotInstalledError", "MemoryError"}
  ELSE {"PDFPageCountError", "PDFSyntaxError"}

\* Lines 58-61: except Exception as e: raise RuntimeError(...) from e.
\* Variant whose except clause names only pdf2image's errors.
WrapOnlyPdfErrors(e) ==
  IF e \in {"PDFPageCountError", "PDFSyntaxError"}
  THEN Exc("RuntimeError", e, "rasterize")
  ELSE Exc(e, "None", "rasterize")

WrapRasterError(e) == Exc("RuntimeError", e, "rasterize")

\* enumerate(images, 1): the image of iteration k.
\* Variant that takes the first image at every iteration.
FirstImage(imgs, k) == imgs[1]

ImageAt(imgs, k) == imgs[k]

\* prs.slides.add_slide(blank_slide_layout): a new slide without shapes, last.
add_slide(deck) == Append(deck, <<>>)

\* slide.shapes.add_picture(...) on the slide add_slide returned (the last).
add_picture(deck, img) ==
  [deck EXCEPT ![Len(deck)] = Append(deck[Len(deck)], img)]

\* Path(temp_image_path).unlink(missing_ok=True).
unlink(f, path) == [f EXCEPT ![path] = Absent]

\* Where control goes after the finally block of iteration k of n.
\* Variant whose finally block swallows the pending exception.
AfterFinallySwallow(pending, k, n) ==
  IF k < n THEN "image_save" ELSE "save"

AfterFinally(pending, k, n) ==
  IF pending.type # "None" THEN "raised"
  ELSE IF k < n THEN "image_save"
  ELSE "save"

\* The failures prs.save can raise, and what each leaves at the destination:
\* a refused open leaves the path alone, a write that fails midway leaves
\* the bytes written so far.
SaveErrors == {"PermissionError", "FileNotFoundError", "OSError"}

AfterFailedSave(old, e) == IF e = "OSError" THEN {Partial} ELSE {old}

\* Lines 115-139 of cli.py: the except arms of convert_command, in order.
\* FileNotFoundError and PermissionError are distinct subclasses of OSError.
convert_command_report(e) ==
  IF e.type = "None" THEN [exit |-> 0, stream |-> "stdout", category |-> "Success"]
  ELSE IF e.type = "FileNotFoundError"
    THEN [exit |-> 1, stream |-> "stderr", category |-> "File not found"]
  ELSE IF e.type = "ValueError"
    THEN [exit |-> 1, stream |-> "stderr", category |-> "Invalid input"]
  ELSE IF e.type = "RuntimeError"
    THEN [exit |-> 1, stream |-> "stderr", category |-> "Runtime error"]
  ELSE [exit |-> 1, stream |-> "stderr", category |-> "Unexpected error"]

\* click's UsageError for a rejected argument.
UsageReport == [exit |-> 2, stream |-> "stderr", category |-> "Usage"]

----------------------------------------------------------------------------
\* Initial states.

\* What the input_pdf argument of conversion p can name: nothing, a directory,
\* a file that is not a PDF, or document p with 0..MaxPages pages.
SrcContents(p) == {Absent, Dir, Corrupt} \cup {Pdf(p, n) : n \in 0..MaxPages}

InitFs(active, dstContents, tempContents) ==
  \E s \in [active -> UNION {SrcContents(p) : p \in active}],
     d \in [active -> dstContents],
     t \in [1..MaxPages -> tempContents] :
    /\ \A p \in active : s[p] \in SrcContents(p)
    /\ fs = [path \in Paths |->
               IF path[1] = "temp_page" THEN t[path[2]]
               ELSE IF path[2] \notin active THEN Absent
               ELSE IF path[1] = "output_pptx" THEN d[path[2]]
               ELSE s[path[2]]]

InitProcs(active) ==
  /\ fs0 = fs
  /\ \E en \in [active -> {"cli", "api"}] :
       /\ entry = [p \in Procs |-> IF p \in active THEN en[p] ELSE "off"]
       /\ pc = [p \in Procs |-> IF p \notin active THEN "off"
                                ELSE IF en[p] = "cli" THEN "click" ELSE "validate"]
  /\ images = [p \in Procs |-> <<>>]
  /\ slides = [p \in Procs |-> <<>>]
  /\ i = [p \in Procs |-> 0]
  /\ exc = [p \in Procs |-> NoExc]
  /\ report = [p \in Procs |-> NoReport]
  /\ rasterCalls = [p \in Procs |-> 0]
  /\ saveCalls = [p \in Procs |-> 0]
  /\ created = [p \in Procs |-> {}]

\* One conversion; the destination and the temp_page_k.png names may be taken.
Init ==
  /\ InitFs({1}, {Absent, UserFile}, {Absent, UserFile})
  /\ InitProcs({1})

\* Two conversions in a working directory that holds no temp_page_k.png.
InitConc ==
  /\ InitFs(Procs, {Absent}, {Absent})
  /\ InitProcs(Procs)

----------------------------------------------------------------------------
\* Actions.

Raise(p, e) ==
  /\ exc' = [exc EXCEPT ![p] = e]
  /\ pc' = [pc EXCEPT ![p] = "raised"]

\* click converts the INPUT_PDF argument before convert_command's body runs.
ClickArgument(p) ==
  /\ pc[p] = "click"
  /\ IF click_path_ok(fs[Src(p)])
       THEN /\ pc' = [pc EXCEPT ![p] = "validate"]
            /\ UNCHANGED report
       ELSE /\ pc' = [pc EXCEPT ![p] = "exited"]
            /\ report' = [report EXCEPT ![p] = UsageReport]
  /\ UNCHANGED <<fs, fs0, entry, images, slides, i, exc, rasterCalls, saveCalls, created>>

Validate(p) ==
  /\ pc[p] = "validate"
  /\ LET r == validate(fs[Src(p)]) IN
       IF r = "ok"
         THEN /\ pc' = [pc EXCEPT ![p] = "rasterize"]
              /\ UNCHANGED exc
         ELSE Raise(p, Exc(r, "None", "validate"))
  /\ UNCHANGED <<fs, fs0, entry, images, slides, i, report, rasterCalls, saveCalls, created>>

Rasterize(p) ==
  /\ pc[p] = "rasterize"
  /\ rasterCalls' = [rasterCalls EXCEPT ![p] = @ + 1]
  /\ \/ /\ fs[Src(p)].kind = "pdf"
        /\ images' = [images EXCEPT ![p] = convert_from_path(fs[Src(p)])]
        /\ i' = [i EXCEPT ![p] = IF fs[Src(p)].pages > 0 THEN 1 ELSE 0]
        /\ pc' = [pc EXCEPT ![p] = IF fs[Src(p)].pages > 0 THEN "image_save" ELSE "save"]
        /\ UNCHANGED exc
     \/ /\ \E e \in RasterErrors(fs[Src(p)]) : Raise(p, WrapRasterError(e))
        /\ UNCHANGED <<images, i>>
  /\ UNCHANGED <<fs, fs0, entry, slides, report, saveCalls, created>>

\* image.save(temp_image_path, "PNG"), before the try block.
ImageSave(p) ==
  /\ pc[p] = "image_save"
  /\ \/ /\ fs' = [fs EXCEPT ![temp_image_path(i[p])] = Png(ImageAt(images[p], i[p]))]
        /\ created' = [created EXCEPT ![p] = @ \cup {i[p]}]
        /\ pc' = [pc EXCEPT ![p] = "add_slide"]
        /\ UNCHANGED exc
     \/ /\ Raise(p, Exc("OSError", "None", "image_save"))
        /\ \/ UNCHANGED <<fs, created>>
           \/ /\ fs' = [fs EXCEPT ![temp_image_path(i[p])] = Partial]
              /\ created' = [created EXCEPT ![p] = @ \cup {i[p]}]
  /\ UNCHANGED <<fs0, entry, images, slides, i, report, rasterCalls, saveCalls>>

AddSlide(p) ==
  /\ pc[p] = "add_slide"
  /\ \/ /\ slides' = [slides EXCEPT ![p] = add_slide(@)]
        /\ pc' = [pc EXCEPT ![p] = "add_picture"]
        /\ UNCHANGED exc
     \/ /\ exc' = [exc EXCEPT ![p] = Exc("MemoryError", "None", "add_slide")]
        /\ pc' = [pc EXCEPT ![p] = "finally"]
        /\ UNCHANGED slides
  /\ UNCHANGED <<fs, fs0, entry, images, i, report, rasterCalls, saveCalls, created>>

\* add_picture reads the file at temp_image_path as it is now.
AddPicture(p) ==
  /\ pc[p] = "add_picture"
  /\ pc' = [pc EXCEPT ![p] = "finally"]
  /\ LET content == fs[temp_image_path(i[p])] IN
       IF content.kind = "absent"
         THEN /\ exc' = [exc EXCEPT ![p] = Exc("FileNotFoundError", "None", "add_picture")]
              /\ UNCHANGED slides
       ELSE IF content.kind # "png"
         THEN /\ exc' = [exc EXCEPT ![p] = Exc("UnidentifiedImageError", "None", "add_picture")]
              /\ UNCHANGED slides
       ELSE \/ /\ slides' = [slides EXCEPT ![p] = add_picture(@, content.img)]
               /\ UNCHANGED exc
            \/ /\ exc' = [exc EXCEPT ![p] = Exc("MemoryError", "None", "add_picture")]
               /\ UNCHANGED slides
  /\ UNCHANGED <<fs, fs0, entry, images, i, report, rasterCalls, saveCalls, created>>

Finally(p) ==
  /\ pc[p] = "finally"
  /\ fs' = unlink(fs, temp_image_path(i[p]))
  /\ LET next == AfterFinally(exc[p], i[p], Len(images[p])) IN
       /\ pc' = [pc EXCEPT ![p] = next]
       /\ i' = [i EXCEPT ![p] = IF next = "image_save" THEN @ + 1 ELSE @]
  /\ UNCHANGED <<fs0, entry, images, slides, exc, report, rasterCalls, saveCalls, created>>

\* prs.save(output_pptx); any exception is logged and re-raised as it is.
Save(p) ==
  /\ pc[p] = "save"
  /\ saveCalls' = [saveCalls EXCEPT ![p] = @ + 1]
  /\ \/ /\ fs' = [fs EXCEPT ![Dst(p)] = Pptx(slides[p])]
        /\ pc' = [pc EXCEPT ![p] = "returned"]
        /\ UNCHANGED exc
     \/ \E e \in SaveErrors :
          /\ Raise(p, Exc(e, "None", "save"))
          /\ \E left \in AfterFailedSave(fs[Dst(p)], e) :
               fs' = [fs EXCEPT ![Dst(p)] = left]
  /\ UNCHANGED <<fs0, entry, images, slides, i, report, rasterCalls, created>>

\* The try/except of convert_command around the call.
ConvertCommandExit(p) ==
  /\ entry[p] = "cli"
  /\ pc[p] \in {"returned", "raised"}
  /\ report' = [report EXCEPT ![p] = convert_command_report(exc[p])]
  /\ pc' = [pc EXCEPT ![p] = "exited"]
  /\ UNCHANGED <<fs, fs0, entry, images, slides, i, exc, rasterCalls, saveCalls, created>>

Step(p) ==
  \/ ClickArgument(p)
  \/ Validate(p)
  \/ Rasterize(p)
  \/ ImageSave(p)
  \/ AddSlide(p)
  \/ AddPicture(p)
  \/ Finally(p)
  \/ Save(p)
  \/ ConvertCommandExit(p)

Next == \E p \in Procs : Step(p)

Spec == Init /\ [][Next]_vars

SpecConc == InitConc /\ [][Next]_vars

----------------------------------------------------------------------------
\* Vocabulary of the properties.

\* convert_pdf_to_pptx has returned or raised.
Ended(p) == pc[p] \in {"returned", "raised"} \/ (pc[p] = "exited" /\ report[p].exit # 2)

Succeeded(p) == Ended(p) /\ exc[p].type = "None"

Failed(p) == Ended(p) /\ exc[p].type # "None"

----------------------------------------------------------------------------
\* Properties of one conversion (Spec).

EmbedStages == {"validate", "rasterize", "image_save", "add_slide", "add_picture"}

\* C1: after a successful run on a source whose rasterization yields pages
\* 1..N, the saved deck has exactly N slides and slide k holds exactly the
\* image of page k.
C1_SlidesMatchPages ==
  \A p \in Procs :
    Succeeded(p) =>
      /\ fs[Dst(p)].kind = "pptx"
      /\ Len(fs[Dst(p)].deck) = fs[Src(p)].pages
      /\ \A k \in 1..fs[Src(p)].pages : fs[Dst(p)].deck[k] = << <<p, k>> >>

C1_Witness == Succeeded(1) /\ fs[Src(1)].pages = MaxPages /\ MaxPages >= 2

\* C2: when convert_pdf_to_pptx has returned or raised, at whatever step, no
\* temp_page_k.png that this run opened for writing is left on disk.
C2_NoTempLeftBehind ==
  \A p \in Procs :
    Ended(p) => \A k \in created[p] : fs[temp_image_path(k)].kind = "absent"

C4_ExitCodes ==
  \A p \in Procs :
    pc[p] = "exited" =>
      /\ report[p].exit \in {0, 1}
      /\ report[p].exit = 0 <=> Succeeded(p)
      /\ report[p].exit = 1 => report[p].stream = "stderr"

\* C5: convert_from_path is called only on a source that exists and is a
\* regular file; a missing source ends in FileNotFoundError and a directory
\* in ValueError, both raised by validation with the filesystem untouched.
C5_ValidateBeforeRasterize ==
  \A p \in Procs :
    /\ (pc[p] = "rasterize" \/ rasterCalls[p] > 0) => fs[Src(p)].kind \notin {"absent", "dir"}
    /\ (Ended(p) /\ fs[Src(p)].kind \in {"absent", "dir"}) =>
         /\ exc[p] = Exc(IF fs[Src(p)].kind = "absent" THEN "FileNotFoundError" ELSE "ValueError",
                         "None", "validate")
         /\ rasterCalls[p] = 0
         /\ created[p] = {}
         /\ fs = fs0

C5_Witness == pc[1] = "raised" /\ fs[Src(1)].kind = "dir" /\ exc[1].type = "ValueError"

\* C6: an exception raised by convert_from_path, whatever its type, leaves
\* convert_pdf_to_pptx as a RuntimeError whose cause is that exception, and
\* the convert command reports it as a runtime error.
C6_RasterErrorsWrapped ==
  \A p \in Procs :
    exc[p].stage = "rasterize" =>
      /\ exc[p].type = "RuntimeError"
      /\ exc[p].cause \in {"PDFInfoNotInstalledError", "MemoryError",
                           "PDFPageCountError", "PDFSyntaxError"}
      /\ pc[p] = "exited" => report[p].category = "Runtime error"

C6_Witness == pc[1] = "exited" /\ exc[1].stage = "rasterize" /\ exc[1].cause = "MemoryError"

\* C7: a failure of prs.save is never reported by the convert command as a
\* missing file, an invalid input or a rasterization failure.
C7_SaveFailureReport ==
  \A p \in Procs :
    (pc[p] = "exited" /\ exc[p].stage = "save") =>
      report[p].category \notin {"File not found", "Invalid input", "Runtime error"}

\* C8: when prs.save has failed, no partial file is at the destination.
C8_NoPartialDestination ==
  \A p \in Procs :
    (Ended(p) /\ exc[p].stage = "save") => fs[Dst(p)].kind # "partial"

\* C10: when the conversion has ended, every path other than the destination
\* that held something before the run holds the same thing.
C10_OtherFilesUntouched ==
  \A p \in Procs :
    Ended(p) =>
      \A path \in Paths \ {Dst(p)} :
        fs0[path].kind # "absent" => fs[path] = fs0[path]

----------------------------------------------------------------------------
\* Properties of two concurrent conversions (SpecConc).

\* C9: whatever the interleaving, a conversion about to embed page k finds
\* its own image of page k at temp_page_k.png, and every picture in a deck
\* is the image of the same conversion's page at that position.
C9_TempFilesNotShared ==
  \A p \in Procs :
    /\ pc[p] = "add_picture" => fs[temp_image_path(i[p])] = Png(<<p, i[p]>>)
    /\ \A k \in 1..Len(slides[p]) : slides[p][k] \in {<<>>, << <<p, k>> >>}

====
